---- MODULE Spec2Model ----
(***************************************************************************)
(* Tunnel lifecycle of netlinklib (src/src/tunnel.rs): creation of 6in4    *)
(* (Sit) and 4in6 (IpIp6) tunnels through SIOCADDTUNNEL and their deletion *)
(* on drop through SIOCDELTUNNEL.  Every call is synchronous, so each      *)
(* public operation is one action; the kernel's answers to socket() and    *)
(* ioctl() are the environment's choice.  The VerIhl byte is checked on    *)
(* its own (SpecVerIhl), and so are the async link queries link_wait_up    *)
(* and link_exists of src/src/link.rs (SpecLink), one action per await.    *)
(***************************************************************************)
EXTENDS Integers, Naturals, Sequences, FiniteSets, TLC

VARIABLES ifaces, handles, openFds, last, hostLE, linkUp, wait, verihl

vars == <<ifaces, handles, openFds, last, hostLE, linkUp, wait, verihl>>

\* the state of the tunnel calls; of the link queries of src/src/link.rs; of
\* one VerIhl byte
tunnelVars == <<handles, openFds, last, hostLE>>
linkVars == <<linkUp, wait>>

(* ------------------------------ bounds --------------------------------- *)

\* longest tunnel name offered to the constructors
MaxNameLen == 16
\* length of the ordinary short tunnel name
ShortLen == 4
\* handles alive at once
MaxHandles == 2
\* handles released in place and still in scope at once
MaxReleased == 1
\* sockets that may stay open before the model stops issuing calls
MaxOpenFds == 2
\* sleeps one link_wait_up call takes before the model stops following it
MaxPolls == 2

(* --------------------------- program constants ------------------------- *)

IFNAMSIZ == 16
SIOCADDTUNNEL == 35313
SIOCDELTUNNEL == 35314
AF_INET == 2
AF_INET6 == 10
IPPROTO_IPV6 == 41

\* "sit0"
Sit0 == <<115, 105, 116, 48>>
\* "ip6tnl0"
Ip6Tnl0 == <<105, 112, 54, 116, 110, 108, 48>>

(* ------------------------------- inputs -------------------------------- *)

Fill(n) == [i \in 1..n |-> 97]

\* a name with an interior NUL byte
NulName == <<97, 0, 97>>

Names == {Fill(n) : n \in {ShortLen} \cup ((IFNAMSIZ - 1)..MaxNameLen)} \cup {NulName}

\* "e" is the one parent interface present on the host, "x" is absent
MasterUp == <<101>>
MasterNames == {MasterUp, <<120>>, <<101, 0>>}

Addrs4 == {<<203, 0, 113, 1>>, <<198, 51, 100, 1>>}

Addrs6 == {<<32, 1, 13, 184, 0, 0, 0, 0, 0, 0, 0, 0, 0, 0, 0, 1>>,
           <<254, 128, 0, 0, 0, 0, 0, 0, 0, 0, 0, 0, 0, 0, 0, 2>>}

\* the (local, remote) endpoints offered to the constructors
Endpoints4 == {ep \in Addrs4 \X Addrs4 : ep[1] # ep[2]}

Endpoints6 == {ep \in Addrs6 \X Addrs6 : ep[1] # ep[2]}

\* how the kernel answers one call: it serves it, socket() fails with
\* EMFILE, or the tunnel ioctl is refused with EPERM
KernelAnswers == {"ok", "EMFILE", "EPERM"}

(* ------------------------------ helpers -------------------------------- *)

\* CString::new: fails when the bytes contain a NUL
HasNul(s) == \E i \in 1..Len(s) : s[i] = 0

\* [0; IFNAMSIZ] filled by zipping the raw name with the array
NameArr(raw) == [i \in 1..IFNAMSIZ |-> IF i <= Len(raw) THEN raw[i] ELSE 0]

RECURSIVE BitAnd(_, _, _)
BitAnd(a, b, w) ==
    IF w = 0 THEN 0
    ELSE (IF a % 2 = 1 /\ b % 2 = 1 THEN 1 ELSE 0) + 2 * BitAnd(a \div 2, b \div 2, w - 1)

RECURSIVE BitOr(_, _, _)
BitOr(a, b, w) ==
    IF w = 0 THEN 0
    ELSE (IF a % 2 = 1 \/ b % 2 = 1 THEN 1 ELSE 0) + 2 * BitOr(a \div 2, b \div 2, w - 1)

\* u8 << 4
Shl4(v) == (v * 16) % 256

VerIhlDefault == 0

\* the version written without the shift to the high nibble
set_version_noshift(b, version) == BitOr(BitAnd(b, 15, 8), version, 8)

set_version(b, version) == BitOr(BitAnd(b, 15, 8), Shl4(version), 8)

set_ihl(b, ihl) == BitOr(BitAnd(b, 240, 8), ihl % 15, 8)

(* --------------------------- address fields ---------------------------- *)

\* Unsigned integers wider than a byte are kept as their base-256 digits,
\* most significant digit first.

\* u32::from(Ipv4Addr) / u128::from(Ipv6Addr): the first octet is the most
\* significant digit
UIntFromAddr(octets) == octets

Reverse(s) == [i \in 1..Len(s) |-> s[Len(s) + 1 - i]]

\* the value stored as it is, in host order
to_be_identity(x, le) == x

\* uN::to_be: swaps the bytes on a little-endian target, identity otherwise
to_be(x, le) == IF le THEN Reverse(x) ELSE x

\* the bytes a uN occupies in memory, lowest address first
MemBytes(x, le) == IF le THEN Reverse(x) ELSE x

(* ----------------------------- descriptors ----------------------------- *)

SitVerIhl == set_ihl(set_version(VerIhlDefault, 4), 5)

SitIpHdr(laddr, raddr, le) ==
    [vihl |-> SitVerIhl, tos |-> 0, tot_len |-> 0, id |-> 0, frag_off |-> 0,
     check |-> 0, ttl |-> 64, protocol |-> IPPROTO_IPV6,
     saddr |-> to_be(UIntFromAddr(laddr), le),
     daddr |-> to_be(UIntFromAddr(raddr), le)]

SitParm(tnlname_arr, link, laddr, raddr, le) ==
    [shape |-> "IpTunnelParm4", name |-> tnlname_arr, link |-> link,
     i_flags |-> 0, o_flags |-> 0, i_key |-> 0, o_key |-> 0,
     iph |-> SitIpHdr(laddr, raddr, le)]

\* the wrapper named after the tunnel instead of the driver template
SitIfReq_tunnelName(p) == [shape |-> "IfReq4", name |-> p.name, ifru_data |-> p]

SitIfReq(p) == [shape |-> "IfReq4", name |-> NameArr(Sit0), ifru_data |-> p]

\* the IPv6-outer descriptor built as an IPv4-outer one from the leading
\* four octets of each address
IpIp6Parm_v4(tnlname_arr, link, laddr, raddr, le) ==
    SitParm(tnlname_arr, link, SubSeq(laddr, 1, 4), SubSeq(raddr, 1, 4), le)

IpIp6Parm(tnlname_arr, link, laddr, raddr, le) ==
    [shape |-> "IpTunnelParm6", name |-> tnlname_arr, link |-> link,
     i_flags |-> 0, o_flags |-> 0, i_key |-> 0, o_key |-> 0,
     iph |-> [saddr |-> to_be(UIntFromAddr(laddr), le),
              daddr |-> to_be(UIntFromAddr(raddr), le)]]

IpIp6IfReq(p) == [shape |-> "IfReq6", name |-> NameArr(Ip6Tnl0), ifru_data |-> p]

\* the deletion descriptor built with the header Sit::new fills in
DeleteParm_sitHeader(tnlname_arr) ==
    [shape |-> "IpTunnelParm4", name |-> tnlname_arr, link |-> 0,
     i_flags |-> 0, o_flags |-> 0, i_key |-> 0, o_key |-> 0,
     iph |-> [vihl |-> SitVerIhl, tos |-> 0, tot_len |-> 0, id |-> 0,
              frag_off |-> 0, ttl |-> 64, protocol |-> IPPROTO_IPV6, check |-> 0,
              saddr |-> <<0, 0, 0, 0>>, daddr |-> <<0, 0, 0, 0>>]]

DeleteParm(tnlname_arr) ==
    [shape |-> "IpTunnelParm4", name |-> tnlname_arr, link |-> 0,
     i_flags |-> 0, o_flags |-> 0, i_key |-> 0, o_key |-> 0,
     iph |-> [vihl |-> VerIhlDefault, tos |-> 0, tot_len |-> 0, id |-> 0,
              frag_off |-> 0, ttl |-> 0, protocol |-> 0, check |-> 0,
              saddr |-> <<0, 0, 0, 0>>, daddr |-> <<0, 0, 0, 0>>]]

DeleteIfReq(tnlname_arr, p) == [shape |-> "IfReq4", name |-> tnlname_arr, ifru_data |-> p]

(* ------------------------- descriptors in memory ----------------------- *)

\* #[repr(C)]: the fields in declaration order, each at its natural
\* alignment.  With these field widths no padding arises in either block:
\* the header starts at offset 32 and the sizes are multiples of the widest
\* field.

\* the n bytes of an unsigned integer field, lowest address first
UIntBytes(v, n, le) == MemBytes([i \in 1..n |-> (v \div (256 ^ (n - i))) % 256], le)

\* struct IpHdr4 / struct IpHdr6
IpHdrBytes(p, le) ==
    IF p.shape = "IpTunnelParm4"
    THEN <<p.iph.vihl, p.iph.tos>> \o UIntBytes(p.iph.tot_len, 2, le)
         \o UIntBytes(p.iph.id, 2, le) \o UIntBytes(p.iph.frag_off, 2, le)
         \o <<p.iph.ttl, p.iph.protocol>> \o UIntBytes(p.iph.check, 2, le)
         \o MemBytes(p.iph.saddr, le) \o MemBytes(p.iph.daddr, le)
    ELSE MemBytes(p.iph.saddr, le) \o MemBytes(p.iph.daddr, le)

\* struct IpTunnelParm4 / struct IpTunnelParm6: the buffer the ioctl reads
ParmBytes(p, le) ==
    p.name \o UIntBytes(p.link, 4, le) \o UIntBytes(p.i_flags, 2, le)
    \o UIntBytes(p.o_flags, 2, le) \o UIntBytes(p.i_key, 4, le)
    \o UIntBytes(p.o_key, 4, le) \o IpHdrBytes(p, le)

(* ------------------------------- kernel -------------------------------- *)

\* libc::if_nametoindex: 0 when no interface has that name
if_nametoindex(master) == IF master = MasterUp THEN 2 ELSE 0

\* the kernel reads a name field as a C string of at most IFNAMSIZ - 1 bytes
KernelNameLen(arr) ==
    LET Z == {i \in 1..(IFNAMSIZ - 1) : arr[i] = 0}
    IN  IF Z = {} THEN IFNAMSIZ - 1 ELSE (CHOOSE i \in Z : \A j \in Z : i <= j) - 1

KernelName(arr) == SubSeq(arr, 1, KernelNameLen(arr))

Templates == {Sit0, Ip6Tnl0}

\* libc::ioctl on a tunnel request: the request goes to the device named in
\* the wrapper; a driver template acts on the tunnel named in the parameter
\* block, any other device acts on itself.
Ioctl(cmd, ifr, answer) ==
    LET dev    == KernelName(ifr.name)
        inner  == KernelName(ifr.ifru_data.name)
        target == IF dev \in Templates THEN inner ELSE dev
        fail(e) == [ret |-> -1, errno |-> e, ifaces |-> ifaces]
    IN  IF dev \notin Templates \cup ifaces THEN fail("ENODEV")
        ELSE IF answer = "EPERM" THEN fail("EPERM")
        ELSE IF cmd = SIOCADDTUNNEL
             THEN IF inner \in Templates \cup ifaces THEN fail("EEXIST")
                  ELSE [ret |-> 0, errno |-> "", ifaces |-> ifaces \cup {inner}]
        ELSE IF cmd = SIOCDELTUNNEL
             THEN IF target \notin ifaces THEN fail("ENOENT")
                  ELSE [ret |-> 0, errno |-> "", ifaces |-> ifaces \ {target}]
        ELSE fail("EINVAL")

\* libc::socket: a descriptor, or -1 with errno set
Socket(answer) == IF answer = "EMFILE" THEN -1 ELSE 3

(* ------------------------------- results ------------------------------- *)

Ok == [kind |-> "Ok", link |-> <<>>, code |-> ""]
ErrNul == [kind |-> "Nul", link |-> <<>>, code |-> ""]
ErrLinkNotFound(master) == [kind |-> "LinkNotFound", link |-> master, code |-> ""]
\* one fixed code reported whatever the call's errno was
ErrIo_generic(errno) == [kind |-> "Io", link |-> <<>>, code |-> "EIO"]

\* io::Error::last_os_error().into()
ErrIo(errno) == [kind |-> "Io", link |-> <<>>, code |-> errno]

IoctlRecord(cmd, family, ifr, rc) ==
    [cmd |-> cmd, family |-> family, ifr |-> ifr, ret |-> rc.ret, errno |-> rc.errno]

\* what one call did: its result, the sockets it opened and closed, the
\* ioctls it issued and the interface table it left
Trace(resolved, link, result, socks, closed, ioctls, table) ==
    [resolved |-> resolved, link |-> link, result |-> result, socks |-> socks,
     closed |-> closed, ioctls |-> ioctls, ifaces |-> table]

(* ------------------------------ Sit::new ------------------------------- *)

\* the check of the master index left out
LinkMissing_never(p) == FALSE

\* if p.link == 0
LinkMissing(p) == p.link = 0

\* the ioctl's return value ignored
IoctlFailed_never(rc) == FALSE

\* libc::ioctl(..) < 0
IoctlFailed(rc) == rc.ret < 0

SitNewBody(name, master, laddr, raddr, answer) ==
    IF HasNul(name) \/ HasNul(master)
    THEN Trace(FALSE, 0, ErrNul, 0, 0, <<>>, ifaces)
    ELSE
    LET tnlname_arr == NameArr(name)
        p == SitParm(tnlname_arr, if_nametoindex(master), laddr, raddr, hostLE)
    IN  IF LinkMissing(p)
        THEN Trace(TRUE, p.link, ErrLinkNotFound(master), 0, 0, <<>>, ifaces)
        ELSE
        LET ifr == SitIfReq(p)
            fd  == Socket(answer)
        IN  IF fd < 0
            THEN Trace(TRUE, p.link, ErrIo(answer), 0, 0, <<>>, ifaces)
            ELSE
            LET rc == Ioctl(SIOCADDTUNNEL, ifr, answer)
                io == <<IoctlRecord(SIOCADDTUNNEL, AF_INET, ifr, rc)>>
            IN  IF IoctlFailed(rc)
                THEN Trace(TRUE, p.link, ErrIo(rc.errno), 1, 0, io, rc.ifaces)
                ELSE Trace(TRUE, p.link, Ok, 1, 1, io, rc.ifaces)

(* ----------------------------- IpIp6::new ------------------------------ *)

IpIp6NewBody(name, master, laddr, raddr, answer) ==
    IF HasNul(name) \/ HasNul(master)
    THEN Trace(FALSE, 0, ErrNul, 0, 0, <<>>, ifaces)
    ELSE
    LET tnlname_arr == NameArr(name)
        p == IpIp6Parm(tnlname_arr, if_nametoindex(master), laddr, raddr, hostLE)
    IN  IF LinkMissing(p)
        THEN Trace(TRUE, p.link, ErrLinkNotFound(master), 0, 0, <<>>, ifaces)
        ELSE
        LET ifr == IpIp6IfReq(p)
            fd  == Socket(answer)
        IN  IF fd < 0
            THEN Trace(TRUE, p.link, ErrIo(answer), 0, 0, <<>>, ifaces)
            ELSE
            LET rc == Ioctl(SIOCADDTUNNEL, ifr, answer)
                io == <<IoctlRecord(SIOCADDTUNNEL, AF_INET6, ifr, rc)>>
            IN  IF IoctlFailed(rc)
                THEN Trace(TRUE, p.link, ErrIo(rc.errno), 1, 0, io, rc.ifaces)
                ELSE Trace(TRUE, p.link, Ok, 1, 1, io, rc.ifaces)

(* ---------------------------- delete_tunnel ---------------------------- *)

DeleteCmd == SIOCDELTUNNEL

\* the deletion socket opened in the IPv4 family
DeleteFamily_inet == AF_INET

\* libc::socket(libc::AF_INET6, libc::SOCK_DGRAM, libc::IPPROTO_IP)
DeleteFamily == AF_INET6

delete_tunnel(name, answer) ==
    IF HasNul(name)
    THEN Trace(FALSE, 0, ErrNul, 0, 0, <<>>, ifaces)
    ELSE
    LET tnlname_arr == NameArr(name)
        p   == DeleteParm(tnlname_arr)
        ifr == DeleteIfReq(tnlname_arr, p)
        fd  == Socket(answer)
    IN  IF fd < 0
        THEN Trace(FALSE, 0, ErrIo(answer), 0, 0, <<>>, ifaces)
        ELSE
        LET rc == Ioctl(DeleteCmd, ifr, answer)
            io == <<IoctlRecord(DeleteCmd, DeleteFamily, ifr, rc)>>
        IN  IF IoctlFailed(rc)
            THEN Trace(FALSE, 0, ErrIo(rc.errno), 1, 0, io, rc.ifaces)
            ELSE Trace(FALSE, 0, Ok, 1, 1, io, rc.ifaces)

\* Sit::do_delete / IpIp6::do_delete
do_delete(h, answer) == delete_tunnel(h.name, answer)

\* Drop::drop: let _ = self.do_delete();
Unit == [kind |-> "Unit", link |-> <<>>, code |-> ""]
\* the result of do_delete handed on instead of discarded
DropReturn_propagate(result) == result

DropReturn(result) == Unit

(* ----------------------------- link queries ---------------------------- *)

\* src/src/link.rs.  The lookup handle().link().get().match_name(link)
\* .execute().try_next().await is served by the rtnetlink connection: the
\* kernel's reply, a response stream that ends without a message, or a
\* failure that has nothing to do with the interface.
LookupAnswers == {"reply", "closed", "EPERM"}

LookupResult(kind, up, code) == [kind |-> kind, up |-> up, code |-> code]

\* Ok(Some(msg)) with the Up flag of msg, Ok(None), or Err(e)
TryNext(link, answer) ==
    IF answer = "closed" THEN LookupResult("None", FALSE, "")
    ELSE IF answer = "EPERM" THEN LookupResult("Err", FALSE, "EPERM")
    ELSE IF link \in ifaces THEN LookupResult("Some", link \in linkUp, "")
    ELSE LookupResult("Err", FALSE, "ENODEV")

\* Result<()> and Result<bool> of the link queries
Ret(kind, value, link, code) == [kind |-> kind, value |-> value, link |-> link, code |-> code]
RetNone == Ret("none", "", <<>>, "")
RetOkUnit == Ret("Ok", "()", <<>>, "")
RetOk(b) == Ret("Ok", IF b THEN "true" ELSE "false", <<>>, "")
\* the ? on try_next: Error::RtNetlink(e)
RetErrRtNetlink(code) == Ret("RtNetlink", "", <<>>, code)
\* .ok_or(Error::LinkNotFound(link))
RetErrLinkNotFound(link) == Ret("LinkNotFound", "", link, "")

\* let exists = ...try_next().await.is_ok(); Ok(exists)
link_exists(r) == RetOk(r.kind # "Err")

link_is_up(link, r) ==
    IF r.kind = "Err" THEN RetErrRtNetlink(r.code)
    ELSE IF r.kind = "None" THEN RetErrLinkNotFound(link)
    ELSE RetOk(r.up)

\* the position of one link query: the call, its interface, where it is in
\* its body, the sleeps it has taken, the answer of its latest lookup, what
\* the interface really was at that lookup, and what it returned
WaitState(op, link, pc, polls, obs, seen, returned) ==
    [op |-> op, link |-> link, pc |-> pc, polls |-> polls, obs |-> obs,
     seen |-> seen, returned |-> returned]

Seen(link) == [present |-> link \in ifaces, up |-> link \in linkUp]

\* no link query is running
Idle == WaitState("none", <<>>, "idle", 0, LookupResult("none", FALSE, ""),
                  [present |-> FALSE, up |-> FALSE], RetNone)

(* ------------------------------- actions ------------------------------- *)

\* Each action runs one call to its end: t is what the call did.

Handle(kind, name) == [kind |-> kind, name |-> name, released |-> FALSE]

\* the record of one finished call; again tells that the handle had already
\* been released in place before this release, ep holds the (local, remote)
\* endpoints a constructor was given
Call(op, name, master, ep, t, returned, again) ==
    [op |-> op, name |-> name, master |-> master, ep |-> ep, trace |-> t,
     returned |-> returned, again |-> again]

\* a VerIhl byte with the version and header length last written to it
\* (-1: none written yet)
VerIhlState(byte, version, ihl) == [byte |-> byte, version |-> version, ihl |-> ihl]

Init ==
    /\ ifaces = {}
    /\ handles = {}
    /\ openFds = 0
    /\ hostLE \in BOOLEAN
    /\ linkUp = {}
    /\ wait = Idle
    /\ verihl = VerIhlState(VerIhlDefault, -1, -1)
    /\ last = Call("none", <<>>, <<>>, <<>>, Trace(FALSE, 0, Ok, 0, 0, <<>>, {}), Unit, FALSE)

SitNew ==
    \E name \in Names, master \in MasterNames, ep \in Endpoints4,
       answer \in KernelAnswers :
        /\ openFds < MaxOpenFds
        /\ Cardinality(handles) < MaxHandles
        /\ \E t \in {SitNewBody(name, master, ep[1], ep[2], answer)} :
               /\ last' = Call("Sit::new", name, master, ep, t, t.result, FALSE)
               /\ ifaces' = t.ifaces
               /\ openFds' = openFds + t.socks - t.closed
               /\ handles' = IF t.result.kind = "Ok"
                             THEN handles \cup {Handle("Sit", name)}
                             ELSE handles
        /\ UNCHANGED <<hostLE, linkUp, wait, verihl>>

IpIp6New ==
    \E name \in Names, master \in MasterNames, ep \in Endpoints6,
       answer \in KernelAnswers :
        /\ openFds < MaxOpenFds
        /\ Cardinality(handles) < MaxHandles
        /\ \E t \in {IpIp6NewBody(name, master, ep[1], ep[2], answer)} :
               /\ last' = Call("IpIp6::new", name, master, ep, t, t.result, FALSE)
               /\ ifaces' = t.ifaces
               /\ openFds' = openFds + t.socks - t.closed
               /\ handles' = IF t.result.kind = "Ok"
                             THEN handles \cup {Handle("IpIp6", name)}
                             ELSE handles
        /\ UNCHANGED <<hostLE, linkUp, wait, verihl>>

\* the handle goes out of scope: Drop::drop runs and the value is gone
DropSit ==
    \E h \in handles, answer \in KernelAnswers :
        /\ h.kind = "Sit"
        /\ openFds < MaxOpenFds
        /\ \E t \in {do_delete(h, answer)} :
               /\ last' = Call("Sit::drop", h.name, <<>>, <<>>, t, DropReturn(t.result), h.released)
               /\ ifaces' = t.ifaces
               /\ openFds' = openFds + t.socks - t.closed
        /\ handles' = handles \ {h}
        /\ UNCHANGED <<hostLE, linkUp, wait, verihl>>

DropIpIp6 ==
    \E h \in handles, answer \in KernelAnswers :
        /\ h.kind = "IpIp6"
        /\ openFds < MaxOpenFds
        /\ \E t \in {do_delete(h, answer)} :
               /\ last' = Call("IpIp6::drop", h.name, <<>>, <<>>, t, DropReturn(t.result), h.released)
               /\ ifaces' = t.ifaces
               /\ openFds' = openFds + t.socks - t.closed
        /\ handles' = handles \ {h}
        /\ UNCHANGED <<hostLE, linkUp, wait, verihl>>

Next == SitNew \/ IpIp6New \/ DropSit \/ DropIpIp6

Spec == Init /\ [][Next]_vars

(* ------------------------ release before scope end --------------------- *)

\* Drop::drop run on a handle that stays in scope (an in-place drop such as
\* ManuallyDrop::drop): the same body, and the handle is dropped again when
\* its scope ends.
ReleaseSit ==
    \E h \in handles, answer \in KernelAnswers :
        /\ h.kind = "Sit"
        /\ ~h.released
        /\ Cardinality({g \in handles : g.released}) < MaxReleased
        /\ openFds < MaxOpenFds
        /\ \E t \in {do_delete(h, answer)} :
               /\ last' = Call("Sit::release", h.name, <<>>, <<>>, t, DropReturn(t.result), FALSE)
               /\ ifaces' = t.ifaces
               /\ openFds' = openFds + t.socks - t.closed
        /\ handles' = (handles \ {h}) \cup {[h EXCEPT !.released = TRUE]}
        /\ UNCHANGED <<hostLE, linkUp, wait, verihl>>

NextRelease == SitNew \/ ReleaseSit \/ DropSit

SpecRelease == Init /\ [][NextRelease]_vars

(* ------------------------------- VerIhl -------------------------------- *)

\* the values of a 4-bit field, and of a byte
Nibbles == 0..15
Bytes == 0..255

InitVerIhl ==
    /\ ifaces = {}
    /\ handles = {}
    /\ openFds = 0
    /\ hostLE \in BOOLEAN
    /\ linkUp = {}
    /\ wait = Idle
    /\ last = Call("none", <<>>, <<>>, <<>>, Trace(FALSE, 0, Ok, 0, 0, <<>>, {}), Unit, FALSE)
    /\ \E b \in Bytes : verihl = VerIhlState(b, -1, -1)

VerIhlSetVersion ==
    \E v \in Nibbles :
        /\ verihl' = VerIhlState(set_version(verihl.byte, v), v, verihl.ihl)
        /\ UNCHANGED <<ifaces, handles, openFds, last, hostLE, linkUp, wait>>

VerIhlSetIhl ==
    \E h \in Nibbles :
        /\ verihl' = VerIhlState(set_ihl(verihl.byte, h), verihl.version, h)
        /\ UNCHANGED <<ifaces, handles, openFds, last, hostLE, linkUp, wait>>

NextVerIhl == VerIhlSetVersion \/ VerIhlSetIhl

SpecVerIhl == InitVerIhl /\ [][NextVerIhl]_vars

(* ---------------------------- link_wait_up ----------------------------- *)

\* The link queries are async: between two awaits of one call the other
\* tasks of the program and the rest of the host run.  The interface table
\* changes under the call: an interface is created or deleted (by a tunnel
\* call of this library or by anyone else) and link_set brings it up or down.

LinkNames == {Fill(ShortLen), MasterUp}

LinkAppears ==
    \E n \in LinkNames :
        /\ n \notin ifaces
        /\ ifaces' = ifaces \cup {n}
        /\ UNCHANGED <<handles, openFds, last, hostLE, linkUp, wait, verihl>>

LinkVanishes ==
    \E n \in ifaces :
        /\ ifaces' = ifaces \ {n}
        /\ linkUp' = linkUp \ {n}
        /\ UNCHANGED <<handles, openFds, last, hostLE, wait, verihl>>

\* link_set(link, state) on an interface that exists
LinkSet ==
    \E n \in ifaces, state \in BOOLEAN :
        /\ linkUp' = IF state THEN linkUp \cup {n} ELSE linkUp \ {n}
        /\ linkUp' # linkUp
        /\ UNCHANGED <<ifaces, handles, openFds, last, hostLE, wait, verihl>>

\* link_wait_up(link) is called
WaitUpCall ==
    \E link \in LinkNames :
        /\ wait.pc \in {"idle", "done"}
        /\ wait' = WaitState("link_wait_up", link, "exists", 0, Idle.obs, Idle.seen, RetNone)
        /\ UNCHANGED <<ifaces, handles, openFds, last, hostLE, linkUp, verihl>>

\* while !self.link_exists(link.clone()).await? ...
WaitUpExists ==
    \E answer \in LookupAnswers :
        /\ wait.op = "link_wait_up"
        /\ wait.pc = "exists"
        /\ \E r \in {TryNext(wait.link, answer)} :
           \E e \in {link_exists(r)} :
               wait' = IF e.kind # "Ok"
                       THEN [wait EXCEPT !.obs = r, !.seen = Seen(wait.link),
                                         !.pc = "done", !.returned = e]
                       ELSE [wait EXCEPT !.obs = r, !.seen = Seen(wait.link),
                                         !.pc = IF e.value = "true" THEN "is_up" ELSE "sleep"]
        /\ UNCHANGED <<ifaces, handles, openFds, last, hostLE, linkUp, verihl>>

\* ... || !self.link_is_up(link.clone()).await? { .. } Ok(())
WaitUpIsUp ==
    \E answer \in LookupAnswers :
        /\ wait.op = "link_wait_up"
        /\ wait.pc = "is_up"
        /\ \E r \in {TryNext(wait.link, answer)} :
           \E u \in {link_is_up(wait.link, r)} :
               wait' = IF u.kind # "Ok"
                       THEN [wait EXCEPT !.obs = r, !.seen = Seen(wait.link),
                                         !.pc = "done", !.returned = u]
                       ELSE IF u.value = "true"
                       THEN [wait EXCEPT !.obs = r, !.seen = Seen(wait.link),
                                         !.pc = "done", !.returned = RetOkUnit]
                       ELSE [wait EXCEPT !.obs = r, !.seen = Seen(wait.link),
                                         !.pc = "sleep"]
        /\ UNCHANGED <<ifaces, handles, openFds, last, hostLE, linkUp, verihl>>

\* sleep(Duration::from_millis(200)).await, then the loop condition again
WaitUpSleep ==
    /\ wait.op = "link_wait_up"
    /\ wait.pc = "sleep"
    /\ wait.polls < MaxPolls
    /\ wait' = [wait EXCEPT !.pc = "exists", !.polls = wait.polls + 1]
    /\ UNCHANGED <<ifaces, handles, openFds, last, hostLE, linkUp, verihl>>

\* link_exists(link), called on its own
LinkExists ==
    \E link \in LinkNames, answer \in LookupAnswers :
        /\ wait.pc \in {"idle", "done"}
        /\ \E r \in {TryNext(link, answer)} :
               wait' = WaitState("link_exists", link, "done", 0, r, Seen(link), link_exists(r))
        /\ UNCHANGED <<ifaces, handles, openFds, last, hostLE, linkUp, verihl>>

NextLink ==
    \/ LinkAppears \/ LinkVanishes \/ LinkSet
    \/ WaitUpCall \/ WaitUpExists \/ WaitUpIsUp \/ WaitUpSleep
    \/ LinkExists

SpecLink == Init /\ [][NextLink]_vars

(* ------------------------------- claims -------------------------------- *)

NewOps == {"Sit::new", "IpIp6::new"}
DropOps == {"Sit::drop", "IpIp6::drop"}
ReleaseOps == {"Sit::release"}

\* the interface name the kernel reads from the first IFNAMSIZ bytes of a name
IfaceOf(name) == KernelName(NameArr(name))

\* C1: every socket opened for a control call is closed when the call
\* returns, so no socket of this subsystem is ever left open.
C1_NoSocketLeftOpen == openFds = 0

\* C2: a constructor given a name of 15 bytes or more fails with NameTooLong
\* and issues no ADD ioctl; a name of 14 bytes or fewer never fails so.
C2_NameTooLong ==
    last.op \in NewOps =>
        IF Len(last.name) >= IFNAMSIZ - 1
        THEN last.returned.kind = "NameTooLong" /\ last.trace.ioctls = <<>>
        ELSE last.returned.kind # "NameTooLong"

\* C3: when the master resolves to index 0 the constructor returns
\* LinkNotFound(master) having opened no socket and issued no ioctl.
C3_MasterNotFoundBeforeSyscall ==
    (last.op \in NewOps /\ last.trace.resolved /\ last.trace.link = 0) =>
        /\ last.returned = ErrLinkNotFound(last.master)
        /\ last.trace.socks = 0
        /\ last.trace.ioctls = <<>>

C3_Witness ==
    /\ last.op \in NewOps
    /\ last.trace.resolved
    /\ last.trace.link = 0
    /\ last.returned.kind = "LinkNotFound"

TemplateOf(op) == IF op \in {"Sit::new", "Sit::drop", "Sit::release"}
                  THEN NameArr(Sit0) ELSE NameArr(Ip6Tnl0)

\* C4 as stated: in every control call, ADD or DELETE, the wrapper's device
\* name is the driver template and the user's name is only in the embedded
\* parameter block.
C4_WrapperAlwaysTemplate ==
    \A i \in 1..Len(last.trace.ioctls) :
        LET r == last.trace.ioctls[i]
        IN  /\ r.ifr.name = TemplateOf(last.op)
            /\ r.ifr.name # NameArr(last.name)
            /\ r.ifr.ifru_data.name = NameArr(last.name)

\* C4 as amended: in every ADD call the wrapper's device name is the driver
\* template ("sit0" for Sit, "ip6tnl0" for IpIp6) and the user's name is only
\* in the embedded parameter block; in every DELETE call the wrapper's device
\* name is the user's tunnel name, the same bytes as the embedded name field.
C4_WrapperNames ==
    \A i \in 1..Len(last.trace.ioctls) :
        LET r == last.trace.ioctls[i]
        IN  /\ r.cmd \in {SIOCADDTUNNEL, SIOCDELTUNNEL}
            /\ r.cmd = SIOCADDTUNNEL <=> last.op \in NewOps
            /\ r.ifr.ifru_data.name = NameArr(last.name)
            /\ IF r.cmd = SIOCADDTUNNEL
               THEN r.ifr.name = TemplateOf(last.op) /\ r.ifr.name # NameArr(last.name)
               ELSE r.ifr.name = NameArr(last.name) /\ r.ifr.name \notin {NameArr(Sit0), NameArr(Ip6Tnl0)}

C4_Witness ==
    /\ last.op \in DropOps
    /\ Len(last.trace.ioctls) = 1
    /\ last.trace.ioctls[1].cmd = SIOCDELTUNNEL
    /\ last.trace.ioctls[1].ifr.name = NameArr(last.name)

KindOf(op) == IF op = "Sit::new" THEN "Sit" ELSE "IpIp6"

\* C5: a handle comes into existence only in a constructor call whose ADD
\* ioctl succeeded, and a constructor call that returns an error produces no
\* handle, creates no interface and issues no DELETE.
C5_NoPartialSuccess ==
    [][ LET t == last'.trace
        IN  /\ (handles' \ handles # {}) =>
                  /\ last'.op \in NewOps
                  /\ last'.returned.kind = "Ok"
                  /\ Len(t.ioctls) = 1
                  /\ t.ioctls[1].cmd = SIOCADDTUNNEL
                  /\ t.ioctls[1].ret = 0
                  /\ IfaceOf(last'.name) \in ifaces' \ ifaces
                  /\ handles' \ handles = {Handle(KindOf(last'.op), last'.name)}
            /\ (last'.op \in NewOps /\ last'.returned.kind # "Ok") =>
                  /\ handles' = handles
                  /\ ifaces' = ifaces
                  /\ \A i \in 1..Len(t.ioctls) : t.ioctls[i].cmd # SIOCDELTUNNEL
      ]_vars

C5_Witness ==
    /\ last.op \in NewOps
    /\ last.returned.kind = "Io"
    /\ Len(last.trace.ioctls) = 1
    /\ last.trace.ioctls[1].ret < 0
    /\ handles = {}
    /\ ifaces = {}

\* the call went as far as the DELETE attempt for the name: socket() failed,
\* or the DELETE ioctl was issued with the name in its parameter block
AttemptedDelete(c) ==
    \/ c.trace.ioctls = <<>> /\ c.trace.result.kind = "Io" /\ c.trace.socks = 0
    \/ /\ Len(c.trace.ioctls) = 1
       /\ c.trace.ioctls[1].cmd = SIOCDELTUNNEL
       /\ c.trace.ioctls[1].ifr.ifru_data.name = NameArr(c.name)

\* C6: whenever a handle's lifetime ends, the DELETE control call for its
\* name is attempted and the drop returns unit whatever the attempt returned.
C6_DropAttemptsAndSwallows ==
    [][ (handles \ handles' # {}) =>
            /\ last'.op \in DropOps
            /\ \E h \in handles \ handles' : h.name = last'.name
            /\ AttemptedDelete(last')
            /\ last'.returned = Unit
      ]_vars

C6_Witness ==
    /\ last.op \in DropOps
    /\ Len(last.trace.ioctls) = 1
    /\ last.trace.result.kind = "Io"
    /\ last.returned = Unit

C8_DoubleReleaseSwallowed ==
    [][ /\ last'.op \in ReleaseOps \cup DropOps =>
              last'.returned = Unit /\ AttemptedDelete(last')
        /\ (last'.op \in DropOps /\ last'.again /\ IfaceOf(last'.name) \notin ifaces) =>
              last'.trace.result.kind = "Io" /\ ifaces' = ifaces
      ]_vars

C8_Witness ==
    /\ last.op \in DropOps
    /\ last.again
    /\ last.trace.result = ErrIo("ENODEV")
    /\ last.returned = Unit

\* C9: after a successful constructor the name field sent with the ADD ioctl
\* is the caller's whole name followed by a zero byte, the name the returned
\* handle stores.
C9_NameCarriedWhole ==
    (last.op \in NewOps /\ last.returned.kind = "Ok") =>
        LET sent == last.trace.ioctls[1].ifr.ifru_data.name
        IN  /\ Len(last.name) < IFNAMSIZ
            /\ SubSeq(sent, 1, Len(last.name)) = last.name
            /\ sent[Len(last.name) + 1] = 0
            /\ IfaceOf(last.name) = last.name
            /\ Handle(KindOf(last.op), last.name) \in handles

\* C10: every descriptor Sit::new sends has version 4, header length 5,
\* ttl 64, protocol 41, the other header fields zero, and flags and keys zero.
C10_SitHeaderFixed ==
    last.op = "Sit::new" =>
        \A i \in 1..Len(last.trace.ioctls) :
            LET p == last.trace.ioctls[i].ifr.ifru_data
            IN  /\ p.shape = "IpTunnelParm4"
                /\ p.iph.vihl \div 16 = 4
                /\ p.iph.vihl % 16 = 5
                /\ p.iph.ttl = 64
                /\ p.iph.protocol = 41
                /\ p.iph.tos = 0 /\ p.iph.tot_len = 0 /\ p.iph.id = 0
                /\ p.iph.frag_off = 0 /\ p.iph.check = 0
                /\ p.i_flags = 0 /\ p.o_flags = 0 /\ p.i_key = 0 /\ p.o_key = 0

C10_Witness ==
    /\ last.op = "Sit::new"
    /\ Len(last.trace.ioctls) = 1
    /\ last.trace.ioctls[1].ifr.ifru_data.iph.vihl = 69

\* C11: the byte holds the version last set in its high nibble and the
\* header length last set in its low nibble, whatever the order of the two
\* setters and the byte they started from: once both are set it is 16*v + h.
C11_NibblesPacked ==
    /\ verihl.version >= 0 => verihl.byte \div 16 = verihl.version
    /\ verihl.ihl >= 0 => verihl.byte % 16 = verihl.ihl
    /\ (verihl.version >= 0 /\ verihl.ihl >= 0) =>
           verihl.byte = 16 * verihl.version + verihl.ihl

\* C12: in every descriptor a constructor sends, the source and destination
\* address fields (4 bytes each for Sit, 16 for IpIp6) hold in memory the
\* octets of the local and remote address, most significant octet first, on
\* a little-endian host as on a big-endian one.
C12_AddressesNetworkOrder ==
    last.op \in NewOps =>
        \A i \in 1..Len(last.trace.ioctls) :
            LET h == last.trace.ioctls[i].ifr.ifru_data.iph
                n == IF last.op = "Sit::new" THEN 4 ELSE 16
            IN  /\ Len(h.saddr) = n
                /\ Len(h.daddr) = n
                /\ MemBytes(h.saddr, hostLE) = last.ep[1]
                /\ MemBytes(h.daddr, hostLE) = last.ep[2]

C12_Witness ==
    /\ hostLE
    /\ last.op = "IpIp6::new"
    /\ Len(last.trace.ioctls) = 1
    /\ last.ep[1][1] = 32
    /\ MemBytes(last.trace.ioctls[1].ifr.ifru_data.iph.saddr, hostLE)[1] = 32

\* C13: the descriptor of every DELETE call holds the tunnel's name and
\* nothing else: master index, flags, keys and every header field, with the
\* version/header-length byte, ttl, protocol and both addresses, are zero,
\* for a Sit as for an IpIp6 and whatever the tunnel was created with.
C13_DeleteOnlyName ==
    \A i \in 1..Len(last.trace.ioctls) :
        LET r == last.trace.ioctls[i]
            p == r.ifr.ifru_data
        IN  r.cmd = SIOCDELTUNNEL =>
                /\ p.name = NameArr(last.name)
                /\ p.link = 0
                /\ p.i_flags = 0 /\ p.o_flags = 0 /\ p.i_key = 0 /\ p.o_key = 0
                /\ p.iph.vihl = 0 /\ p.iph.tos = 0 /\ p.iph.tot_len = 0
                /\ p.iph.id = 0 /\ p.iph.frag_off = 0 /\ p.iph.ttl = 0
                /\ p.iph.protocol = 0 /\ p.iph.check = 0
                /\ \A j \in 1..Len(p.iph.saddr) : p.iph.saddr[j] = 0
                /\ \A j \in 1..Len(p.iph.daddr) : p.iph.daddr[j] = 0

C13_Witness ==
    /\ last.op = "IpIp6::drop"
    /\ Len(last.trace.ioctls) = 1
    /\ last.trace.ioctls[1].cmd = SIOCDELTUNNEL
    /\ last.trace.ioctls[1].ret = 0
    /\ last.trace.ioctls[1].ifr.ifru_data.name = NameArr(last.name)
    /\ last.trace.ioctls[1].ifr.ifru_data.iph.ttl = 0

\* C14: a constructor whose ADD ioctl failed returns the Io error with the
\* errno of that ioctl, unchanged; no call retries: a constructor issues at
\* most one ioctl, an ADD, and a drop at most one ioctl, a DELETE.
C14_ErrnoVerbatimNoRetry ==
    /\ Len(last.trace.ioctls) <= 1
    /\ \A i \in 1..Len(last.trace.ioctls) :
           last.trace.ioctls[i].cmd = IF last.op \in NewOps THEN SIOCADDTUNNEL
                                      ELSE SIOCDELTUNNEL
    /\ (last.op \in NewOps /\ Len(last.trace.ioctls) = 1
          /\ last.trace.ioctls[1].ret < 0) =>
           /\ last.returned.kind = "Io"
           /\ last.returned.code = last.trace.ioctls[1].errno
           /\ last.returned.code \in {"EPERM", "EEXIST"}

C14_Witness ==
    /\ last.op \in NewOps
    /\ Len(last.trace.ioctls) = 1
    /\ last.trace.ioctls[1].cmd = SIOCADDTUNNEL
    /\ last.trace.ioctls[1].errno = "EEXIST"
    /\ last.returned.code = "EEXIST"

\* C15: at any time no two live handles stand for the same interface name,
\* and the interface named by every live handle exists.
C15_OneLiveHandlePerName ==
    /\ \A g \in handles : \A h \in handles :
           (g.name = h.name \/ IfaceOf(g.name) = IfaceOf(h.name)) => g = h
    /\ \A h \in handles : h.name \in ifaces

\* C16: a Sit descriptor and an IpIp6 descriptor sent for the same name and
\* master are different buffers: 52 bytes against 64, an inner header of ten
\* IPv4 header fields with 4-byte addresses against one of two 16-byte
\* addresses only.
C16_VariantsDistinct ==
    [][ ( /\ last.op \in NewOps /\ last'.op \in NewOps
          /\ last.op # last'.op
          /\ last.name = last'.name /\ last.master = last'.master
          /\ Len(last.trace.ioctls) = 1 /\ Len(last'.trace.ioctls) = 1 ) =>
        LET a  == IF last.op = "Sit::new" THEN last ELSE last'
            b  == IF last.op = "Sit::new" THEN last' ELSE last
            p4 == a.trace.ioctls[1].ifr.ifru_data
            p6 == b.trace.ioctls[1].ifr.ifru_data
            b4 == ParmBytes(p4, hostLE)
            b6 == ParmBytes(p6, hostLE)
        IN  /\ Len(b4) = 52
            /\ Len(b6) = 64
            /\ DOMAIN p4.iph = {"vihl", "tos", "tot_len", "id", "frag_off", "ttl",
                                "protocol", "check", "saddr", "daddr"}
            /\ DOMAIN p6.iph = {"saddr", "daddr"}
            /\ Len(p4.iph.saddr) = 4 /\ Len(p4.iph.daddr) = 4
            /\ Len(p6.iph.saddr) = 16 /\ Len(p6.iph.daddr) = 16
            /\ p4.name = p6.name /\ p4.link = p6.link
            /\ b4 # b6
      ]_vars

C16_Witness ==
    /\ last.op = "IpIp6::new"
    /\ Len(last.trace.ioctls) = 1
    /\ last.trace.ioctls[1].errno = "EEXIST"
    /\ Len(ParmBytes(last.trace.ioctls[1].ifr.ifru_data, hostLE)) = 64
    /\ Handle("Sit", last.name) \in handles

\* the socket family and the parameter block of a variant's constructor
FamilyOf(op) == IF op \in {"Sit::new", "Sit::drop", "Sit::release"} THEN AF_INET ELSE AF_INET6
ShapeOf(op) == IF op \in {"Sit::new", "Sit::drop", "Sit::release"}
               THEN "IpTunnelParm4" ELSE "IpTunnelParm6"

\* C17 as stated: the DELETE of a dropped handle uses the socket family and
\* the parameter block of the handle's constructor: AF_INET and the
\* IPv4-outer block for Sit, AF_INET6 and the IPv6-outer block for IpIp6.
C17_DeleteSameVariant ==
    last.op \in DropOps =>
        \A i \in 1..Len(last.trace.ioctls) :
            /\ last.trace.ioctls[i].family = FamilyOf(last.op)
            /\ last.trace.ioctls[i].ifr.ifru_data.shape = ShapeOf(last.op)

\* C17 as amended: the DELETE of a dropped handle is the same for both
\* variants: it goes through an AF_INET6 socket and carries the 52-byte
\* IPv4-outer parameter block in the IPv4-outer wrapper, so it has the
\* constructor's family only for IpIp6 and the constructor's block only for
\* Sit.
C17_DeleteOneVariant ==
    last.op \in DropOps =>
        \A i \in 1..Len(last.trace.ioctls) :
            LET r == last.trace.ioctls[i]
            IN  /\ r.family = 10
                /\ r.ifr.shape = "IfReq4"
                /\ r.ifr.ifru_data.shape = "IpTunnelParm4"
                /\ Len(ParmBytes(r.ifr.ifru_data, hostLE)) = 52
                /\ r.family = FamilyOf(last.op) <=> last.op = "IpIp6::drop"
                /\ r.ifr.ifru_data.shape = ShapeOf(last.op) <=> last.op = "Sit::drop"

C17_Witness ==
    /\ last.op = "Sit::drop"
    /\ Len(last.trace.ioctls) = 1
    /\ last.trace.ioctls[1].family = 10
    /\ last.trace.ioctls[1].ret = 0
    /\ IfaceOf(last.name) \notin ifaces

\* C18: link_wait_up returns Ok only when its latest lookup was made with
\* the interface present and up, and it never returns an error from a
\* lookup made while the interface was absent, whatever creations and
\* deletions of the interface run between its lookups.
C18_WaitUpToleratesAbsence ==
    (wait.op = "link_wait_up" /\ wait.pc = "done") =>
        /\ wait.returned.kind = "Ok" => (wait.seen.present /\ wait.seen.up)
        /\ wait.returned.kind # "Ok" => wait.seen.present

\* C19: link_exists returns Ok(true) exactly when the lookup yielded the
\* interface and Ok(false) when it yielded none or the kernel said there is
\* none; a lookup that failed for another reason gives no Ok answer.
C19_ExistsExact ==
    (wait.op = "link_exists" /\ wait.pc = "done") =>
        /\ wait.obs.kind = "Some" => wait.returned = RetOk(TRUE)
        /\ wait.obs.kind = "None" => wait.returned = RetOk(FALSE)
        /\ (wait.obs.kind = "Err" /\ wait.obs.code = "ENODEV") =>
               wait.returned = RetOk(FALSE)
        /\ (wait.obs.kind = "Err" /\ wait.obs.code # "ENODEV") =>
               wait.returned.kind # "Ok"

====
